---- MODULE Spec2Model ----
(***************************************************************************)
(* pic2func: recovery of a function y = f(x) from a hand-drawn picture.    *)
(* The module models the geometric reconstruction functions of             *)
(* pic2func/function.py and pic2func/detect.py.  Every function is a pure  *)
(* function of its arguments (masks are mutated in place but owned by the  *)
(* caller), so each component draws its inputs in its initial predicate    *)
(* and has one action per call.                                            *)
(***************************************************************************)
EXTENDS Integers, Sequences, FiniteSets, TLC

VARIABLES
    cv,  \* IJcurve_to_IJfunction: [curve, done, fij]
    sc,  \* get_scaleandshift_IJtoXY: [ixticks, jyticks, axes, done, res]
    gt,  \* group_ticks: [ticks, digits, done, res]
    hv,  \* get_tickvals harvest loop: [NI, NJ, start, pic, numbers, pc]
    ax,  \* detect_axes: [NI, NJ, pic, num, den, done, res]
    dl,  \* detect_line: [v, L, done, res]
    tk,  \* get_ticks: [NI, NJ, pic, axes, done, res]
    xy,  \* get_XYfunc: [curve, ixticks, jyticks, axes, done, res]
    gb,  \* nogibbsdftsample: [P, Nc, Nos, done, res]
    rt,  \* remove_tick: [NI, NJ, pic, I, J, done, res]
    sd,  \* sort_digits_in_numbers: [numbers, done, res]
    sq,  \* make_square: [digit, done, res]
    fl   \* the fills round by round: [NI, NJ, pic, fn, ones, tick_ids,
         \* lookups, removed, numbers, pc]

vars == <<cv, sc, gt, hv, ax, dl, tk, xy, gb, rt, sd, sq, fl>>

(***************************************************************************)
(* Bounds of the model.                                                    *)
(***************************************************************************)
MaxCurveLen == 3   \* points of a curve
MaxRow == 2        \* largest row index of a curve point
MaxCol == 1        \* largest column index of a curve point
MaxPix == 2        \* largest pixel position of a tick or of the crosspoint
MaxVal == 1        \* largest numeric value of a tick
MaxPos == 6        \* largest pixel position of a tick or digit to group
MaxGTicks == 2     \* ticks to group
MaxGDigits == 5    \* digits to group
MaxTickLen == 3    \* pixels of a tick to group
MaxFillNI == 4     \* rows of a mask to harvest
MaxFillNJ == 2     \* columns of a mask to harvest
MaxAxNI == 3       \* rows of a mask to search for axes
MaxAxNJ == 2       \* columns of a mask to search for axes
MaxLineLen == 5    \* elements of a vector to search for a line
MaxTkNI == 3       \* rows of a mask to search for ticks
MaxTkNJ == 2       \* columns of a mask to search for ticks
MaxSignalLen == 6  \* samples of a signal to resample
MaxNc == 2         \* Fourier coefficients kept on each side
MaxNos == 10       \* output samples requested
MaxSortRow == 2    \* largest row index of a digit pixel to sort
MaxSortCol == 1    \* largest column index of a digit pixel to sort
MaxSortDigits == 2 \* digits of a number to sort
MaxNumbers == 2    \* numbers to sort
MaxSqRow == 3      \* largest row index of a digit pixel to square
MaxSqCol == 2      \* largest column index of a digit pixel to square

(***************************************************************************)
(* Generic helpers.                                                        *)
(***************************************************************************)
RECURSIVE SumSeq(_)
SumSeq(s) == IF s = <<>> THEN 0 ELSE Head(s) + SumSeq(Tail(s))

SeqsUpTo(S, lo, hi) == UNION {[1..n -> S] : n \in lo..hi}

Range(s) == {s[k] : k \in DOMAIN s}

SetMin(S) == CHOOSE m \in S : \A x \in S : m <= x

SetMax(S) == CHOOSE m \in S : \A x \in S : m >= x

\* a set of integers in ascending order (the order of np.where)
RECURSIVE Sorted(_)
Sorted(S) == IF S = {} THEN <<>> ELSE <<SetMin(S)>> \o Sorted(S \ {SetMin(S)})

(***************************************************************************)
(* Floating point values are modelled as extended rationals n/d with       *)
(* d >= 0: d = 0 with n # 0 is an infinity (of the sign of n), and 0/0 is  *)
(* NaN.  This is what numpy's true division of int64 scalars produces: a   *)
(* division by zero only warns and yields inf or nan.  Rounding and the    *)
(* sign of zero are not modelled.                                          *)
(***************************************************************************)
Sgn(x) == IF x > 0 THEN 1 ELSE IF x < 0 THEN -1 ELSE 0

Q(n, d) == IF d < 0 THEN [n |-> -n, d |-> -d] ELSE [n |-> n, d |-> d]

QInt(k) == [n |-> k, d |-> 1]

QNaN == [n |-> 0, d |-> 0]

QIsNaN(a) == a.n = 0 /\ a.d = 0

QIsInf(a) == a.n # 0 /\ a.d = 0

QIsFinite(a) == a.d # 0

QNeg(a) == [n |-> -a.n, d |-> a.d]

QInv(a) == Q(a.d, a.n)

QMul(a, b) == [n |-> a.n * b.n, d |-> a.d * b.d]

QDiv(a, b) == QMul(a, QInv(b))

QAdd(a, b) ==
    IF QIsInf(a) /\ QIsInf(b)
    THEN IF Sgn(a.n) = Sgn(b.n) THEN [n |-> Sgn(a.n), d |-> 0] ELSE QNaN
    ELSE [n |-> a.n * b.d + b.n * a.d, d |-> a.d * b.d]

\* a is the finite number k
QEqInt(a, k) == a.d # 0 /\ a.n = k * a.d

QLess(a, b) == a.d # 0 /\ b.d # 0 /\ a.n * b.d < b.n * a.d

(***************************************************************************)
(* function.py: IJcurve_to_IJfunction.                                     *)
(* A curve is a sequence of points <<I, J>>.                               *)
(***************************************************************************)
\* Ivals.argsort(): the indices ordered by row.  Points of equal row keep
\* their input order; the column mean does not depend on that order.
RECURSIVE argsort(_)
argsort(Ivals) ==
    IF Ivals = <<>> THEN <<>>
    ELSE LET n == Len(Ivals)
             rest == argsort(SubSeq(Ivals, 1, n - 1))
             pos == Cardinality({k \in 1..(n - 1) : Ivals[rest[k]] <= Ivals[n]})
         IN  SubSeq(rest, 1, pos) \o <<n>> \o SubSeq(rest, pos + 1, n - 1)

\* np.mean(np.array(val))
mean(val) == Q(SumSeq(val), Len(val))

\* The loop of lines 88-95 from position k of the sorted arrays on; st is
\* [spin, val, ivals, ijfunc].
RECURSIVE IJloop(_, _, _, _)
IJloop(Isort, Jsort, k, st) ==
    IF k > Len(Isort) THEN st
    ELSE IF Isort[k] = st.spin
         THEN IJloop(Isort, Jsort, k + 1,
                     [st EXCEPT !.val = Append(st.val, Jsort[k])])
         ELSE IJloop(Isort, Jsort, k + 1,
                     [spin |-> Isort[k], val |-> <<Jsort[k]>>,
                      ivals |-> Append(st.ivals, st.spin),
                      ijfunc |-> Append(st.ijfunc, mean(st.val))])

\* The rows of the returned array: <<ivals[k], ijfunc[k]>>.  The group that
\* is open when the loop ends (spin, val) is not appended by the code.
IJcurve_to_IJfunction(curve) ==
    LET Ivals == [k \in DOMAIN curve |-> curve[k][1]]
        Jvals == [k \in DOMAIN curve |-> curve[k][2]]
        sortids == argsort(Ivals)
        Isort == [k \in DOMAIN curve |-> Ivals[sortids[k]]]
        Jsort == [k \in DOMAIN curve |-> Jvals[sortids[k]]]
        st == IJloop(Isort, Jsort, 2,
                     [spin |-> Isort[1], val |-> <<Jsort[1]>>,
                      ivals |-> <<>>, ijfunc |-> <<>>])
    IN  [k \in DOMAIN st.ivals |-> <<st.ivals[k], st.ijfunc[k]>>]

CurvePoints == (0..MaxRow) \X (0..MaxCol)

CurveIdle == [curve |-> <<<<0, 0>>>>, done |-> FALSE, fij |-> <<>>]

CurveInit ==
    \E c \in SeqsUpTo(CurvePoints, 1, MaxCurveLen) :
        cv = [curve |-> c, done |-> FALSE, fij |-> <<>>]

CallIJcurve ==
    /\ ~cv.done
    /\ cv' = [cv EXCEPT !.done = TRUE, !.fij = IJcurve_to_IJfunction(cv.curve)]
    /\ UNCHANGED <<sc, gt, hv, ax, dl, tk, xy, gb, rt, sd, sq, fl>>

(***************************************************************************)
(* function.py: get_scaleandshift_IJtoXY and the map of get_XYfunc.        *)
(* A tick is <<pixel position, numeric value>>; axes is <<Iaxis, Jaxis>>   *)
(* as returned by detect_axes.  The result is [err, scale, shift] with     *)
(* err = "none" when the function returns, and else the exception raised.  *)
(***************************************************************************)
SupportedTicks == 2

Raise(e) == [err |-> e, scale |-> <<>>, shift |-> <<>>]

\* line 195: assert I1[0] != 0, with I1 = [ixticks[0][0], 0]
LoneITickOk(ixticks) == ixticks[1][1] # 0

\* line 205: assert J1[1] != 0, with J1 = [0, jyticks[0][0]]
LoneJTickOk(jyticks) == jyticks[1][1] # 0

\* IAxisSecond with the count test len(ixticks) >= 2: a longer list is
\* silently cut to its first two ticks
IAxisSecond_truncating(ixticks, crossIJ) ==
    IF Len(ixticks) >= SupportedTicks
    THEN [err |-> "none", P2 |-> ixticks[2][1], V2 |-> ixticks[2][2]]
    ELSE IF ~LoneITickOk(ixticks)
    THEN [err |-> "AssertionError: one x-tick cannot be 0", P2 |-> 0, V2 |-> 0]
    ELSE [err |-> "none", P2 |-> crossIJ[1], V2 |-> 0]

\* lines 188-197: the second reference point of the I axis, [err, P2, V2]
IAxisSecond(ixticks, crossIJ) ==
    IF Len(ixticks) = SupportedTicks
    THEN [err |-> "none", P2 |-> ixticks[2][1], V2 |-> ixticks[2][2]]
    ELSE IF Len(ixticks) > SupportedTicks
    THEN [err |-> "NotImplementedError", P2 |-> 0, V2 |-> 0]
    ELSE IF ~LoneITickOk(ixticks)
    THEN [err |-> "AssertionError: one x-tick cannot be 0", P2 |-> 0, V2 |-> 0]
    ELSE [err |-> "none", P2 |-> crossIJ[1], V2 |-> 0]

\* lines 198-207: the second reference point of the J axis
JAxisSecond(jyticks, crossIJ) ==
    IF Len(jyticks) = SupportedTicks
    THEN [err |-> "none", P2 |-> jyticks[2][1], V2 |-> jyticks[2][2]]
    ELSE IF Len(jyticks) > SupportedTicks
    THEN [err |-> "NotImplementedError", P2 |-> 0, V2 |-> 0]
    ELSE IF ~LoneJTickOk(jyticks)
    THEN [err |-> "AssertionError: one y-tick cannot be 0", P2 |-> 0, V2 |-> 0]
    ELSE [err |-> "none", P2 |-> crossIJ[2], V2 |-> 0]

\* lines 209-215 for one axis: the scale (V2-V1)/(P2-P1) and the shift
\* -(-V2/scale + P2)
AxisScale(P1, V1, P2, V2) == Q(V2 - V1, P2 - P1)

AxisShift(P2, V2, scale) == QNeg(QAdd(QDiv(QInt(-V2), scale), QInt(P2)))

get_scaleandshift_IJtoXY(ixticks, jyticks, axes) ==
    IF Len(ixticks) = 0 THEN Raise("AssertionError: No ticks found in I axis")
    ELSE IF Len(jyticks) = 0 THEN Raise("AssertionError: No ticks found in J axis")
    ELSE
    LET crossIJ == <<axes[2], axes[1]>>
        I1 == ixticks[1][1]
        J1 == jyticks[1][1]
        X1 == ixticks[1][2]
        Y1 == jyticks[1][2]
        i2 == IAxisSecond(ixticks, crossIJ)
        j2 == JAxisSecond(jyticks, crossIJ)
    IN  IF i2.err # "none" THEN Raise(i2.err)
        ELSE IF j2.err # "none" THEN Raise(j2.err)
        ELSE LET xscale == AxisScale(I1, X1, i2.P2, i2.V2)
                 yscale == AxisScale(J1, Y1, j2.P2, j2.V2)
             IN  [err |-> "none",
                  scale |-> <<xscale, yscale>>,
                  shift |-> <<AxisShift(i2.P2, i2.V2, xscale),
                              AxisShift(j2.P2, j2.V2, yscale)>>]

\* get_XYfunc line 59, one coordinate: (ij + shift) * scale
MapCoord(p, scale, shift) == QMul(QAdd(QInt(p), shift), scale)

\* Tick lists as get_ticks and predict_tickvalues build them: ordered by
\* position along the axis, one tick per run, so positions strictly increase.
TickLists ==
    {t \in SeqsUpTo((0..MaxPix) \X (0..MaxVal), 0, SupportedTicks + 1) :
        \A k \in 1..(Len(t) - 1) : t[k][1] < t[k + 1][1]}

ScaleIdle ==
    [ixticks |-> <<>>, jyticks |-> <<>>, axes |-> <<0, 0>>, done |-> FALSE,
     res |-> Raise("none")]

ScaleInit ==
    \E it \in TickLists, jt \in TickLists, a \in (0..MaxPix) \X (0..MaxPix) :
        sc = [ixticks |-> it, jyticks |-> jt, axes |-> a, done |-> FALSE,
              res |-> Raise("none")]

CallScaleAndShift ==
    /\ ~sc.done
    /\ sc' = [sc EXCEPT !.done = TRUE,
                        !.res = get_scaleandshift_IJtoXY(sc.ixticks, sc.jyticks, sc.axes)]
    /\ UNCHANGED <<cv, gt, hv, ax, dl, tk, xy, gb, rt, sd, sq, fl>>


(***************************************************************************)
(* detect.py: group_ticks.                                                 *)
(* A tick or a digit is a list of pixels <<I, J>> (what a flood fill       *)
(* collected).  A group is a list of such objects, the tick first.         *)
(* Python lists are 0-based, the sequences here 1-based.                   *)
(***************************************************************************)
\* np.argmin: the first position of the smallest element
argmin(dists) ==
    CHOOSE k \in DOMAIN dists :
        /\ \A m \in DOMAIN dists : dists[k] <= dists[m]
        /\ \A m \in 1..(k - 1) : dists[m] > dists[k]

\* the squared distance of the first pixels of A and B, in place of the
\* closest pair
obj_edge_dist_first(A, B) ==
    (A[1][1] - B[1][1]) * (A[1][1] - B[1][1])
    + (A[1][2] - B[1][2]) * (A[1][2] - B[1][2])

\* the squared Euclidean distance of the closest pair of pixels of A and B
obj_edge_dist(A, B) ==
    SetMin({(A[a][1] - B[b][1]) * (A[a][1] - B[b][1])
            + (A[a][2] - B[b][2]) * (A[a][2] - B[b][2]) :
            a \in DOMAIN A, b \in DOMAIN B})

\* lines 527-535: the distance from a group (tick and digits) to a digit
GroupDist(group, digit) ==
    SetMin({obj_edge_dist(group[e], digit) : e \in DOMAIN group})

\* digits.pop() in place of digits.pop(k): the last digit is removed
Pop_last(digits, k) == SubSeq(digits, 1, Len(digits) - 1)

\* digits.pop(k), the list that is left
Pop(digits, k) == SubSeq(digits, 1, k - 1) \o SubSeq(digits, k + 1, Len(digits))

GroupErr(e) == [err |-> e, groups |-> <<>>, log |-> <<>>]

\* lines 514-520 from tick i on: each tick takes its closest digit
RECURSIVE GroupPhase1(_, _, _, _)
GroupPhase1(ticks, i, groups, digits) ==
    IF i > Len(ticks) THEN [err |-> "none", groups |-> groups, digits |-> digits]
    ELSE IF digits = <<>>
    THEN [err |-> "ValueError: argmin of an empty sequence",
          groups |-> groups, digits |-> digits]
    ELSE LET dists == [j \in DOMAIN digits |-> obj_edge_dist(ticks[i], digits[j])]
             min_id == argmin(dists)
         IN  GroupPhase1(ticks, i + 1,
                         [groups EXCEPT ![i] = Append(@, digits[min_id])],
                         Pop(digits, min_id))

\* line 524: which element of digits the loop variable `digit` is bound to
\* in the pass over enumerate(digits) whose list iterator stands at
\* position i (1-based), while the body pops the head of that same list
LoopDigit(digits, i) == digits[i]

\* lines 523-538: st is [groups, digits, assignments, log]; i is the position
\* of the list iterator of the running for loop (1-based).  The log records
\* each assignment: the digit popped, the group it went to, and the groups
\* before it was appended.
RECURSIVE GroupPhase2(_, _, _)
GroupPhase2(st, i, Ndigits) ==
    IF i > Len(st.digits)
    THEN \* the for loop is exhausted: test the while condition again
         IF st.assignments < Ndigits
         THEN IF st.digits = <<>>
              THEN GroupErr("the while loop never ends")
              ELSE GroupPhase2(st, 1, Ndigits)
         ELSE [err |-> "none", groups |-> st.groups, log |-> st.log]
    ELSE IF st.groups = <<>>
    THEN GroupErr("ValueError: argmin of an empty sequence")
    ELSE LET digit == LoopDigit(st.digits, i)
             dists == [j \in DOMAIN st.groups |-> GroupDist(st.groups[j], digit)]
             min_id == argmin(dists)
             popped == st.digits[1]
         IN  GroupPhase2(
                 [groups |-> [st.groups EXCEPT ![min_id] = Append(@, popped)],
                  digits |-> Pop(st.digits, 1),
                  assignments |-> st.assignments + 1,
                  log |-> Append(st.log, [digit |-> popped, group |-> min_id,
                                          groups |-> st.groups])],
                 i + 1, Ndigits)

group_ticks(ticks, digits) ==
    LET Ndigits == Len(digits)
        p1 == GroupPhase1(ticks, 1, [k \in DOMAIN ticks |-> <<ticks[k]>>], digits)
    IN  IF p1.err # "none" THEN GroupErr(p1.err)
        ELSE GroupPhase2([groups |-> p1.groups, digits |-> p1.digits,
                          assignments |-> Len(ticks), log |-> <<>>],
                         1, Ndigits)

\* Inputs: ticks and digits are pairwise disjoint objects on the line J = 0
\* (flood fills collect disjoint pixel sets): a digit is one pixel, a tick
\* a bar of one to MaxTickLen pixels.  The ticks come in any order; the
\* digits come in the order get_tickvals harvests them, by their first
\* pixel in row-major order.
LineObject(p) == <<<<p, 0>>>>

\* the tick of n pixels whose first pixel is at position p
TickObject(p, n) == [k \in 1..n |-> <<p + k - 1, 0>>]

TickShapes ==
    {t \in (0..MaxPos) \X (1..MaxTickLen) : t[1] + t[2] - 1 <= MaxPos}

ShapeCells(t) == t[1]..(t[1] + t[2] - 1)

RECURSIVE InjSeqs(_, _)
InjSeqs(S, n) ==
    IF n = 0 THEN {<<>>}
    ELSE UNION {{Append(s, x) : x \in S \ Range(s)} : s \in InjSeqs(S, n - 1)}

GroupIdle == [ticks |-> <<>>, digits |-> <<>>, done |-> FALSE, res |-> GroupErr("none")]

GroupInit ==
    \E nt \in 0..MaxGTicks :
        \E T \in InjSeqs(TickShapes, nt) :
            \E D \in SUBSET ((0..MaxPos) \ UNION {ShapeCells(T[k]) : k \in 1..nt}) :
                /\ \A k, m \in 1..nt : k # m => ShapeCells(T[k]) \cap ShapeCells(T[m]) = {}
                /\ Cardinality(D) <= MaxGDigits
                /\ gt = [ticks |-> [k \in 1..nt |-> TickObject(T[k][1], T[k][2])],
                         digits |-> [k \in 1..Cardinality(D) |-> LineObject(Sorted(D)[k])],
                         done |-> FALSE, res |-> GroupErr("none")]

CallGroupTicks ==
    /\ ~gt.done
    /\ gt' = [gt EXCEPT !.done = TRUE, !.res = group_ticks(gt.ticks, gt.digits)]
    /\ UNCHANGED <<cv, sc, hv, ax, dl, tk, xy, gb, rt, sd, sq, fl>>


(***************************************************************************)
(* detect.py: grow_and_remove_number and the harvest loop of get_tickvals. *)
(* A mask of NI rows and NJ columns is the set of its on-pixels <<i, j>>,  *)
(* 0 <= i < NI, 0 <= j < NJ.  The fill names pixels by the index pairs it  *)
(* computes, which may be negative: numpy resolves an index k of an axis   *)
(* of length N to k + N when -N <= k < 0 and raises IndexError when        *)
(* k < -N or k >= N.                                                       *)
(***************************************************************************)
InRange(k, N) == -N <= k /\ k < N

Resolve(k, N) == IF k < 0 THEN k + N ELSE k

\* the pixel that pic[tid[0], tid[1]] addresses
Pixel(tid, NI, NJ) == <<Resolve(tid[1], NI), Resolve(tid[2], NJ)>>

\* lines 479-480: testids
testids(one) ==
    LET i == one[1]
        j == one[2]
    IN  {<<i + 1, j + 1>>, <<i + 1, j>>, <<i + 1, j - 1>>, <<i, j + 1>>,
         <<i, j - 1>>, <<i - 1, j + 1>>, <<i - 1, j>>, <<i - 1, j - 1>>}

\* a list of index pairs in lexicographic order.  The code's order is that
\* of a Python set of tuples; nothing modelled here reads the order.
RECURSIVE SetToSeq(_)
SetToSeq(S) ==
    IF S = {} THEN <<>>
    ELSE LET m == CHOOSE x \in S : \A y \in S :
                      x[1] < y[1] \/ (x[1] = y[1] /\ x[2] <= y[2])
         IN  <<m>> \o SetToSeq(S \ {m})

\* lines 471-487, one round of the while loop and the rounds after it.
\* ones is the frontier (a set: line 484 removes duplicate index pairs).
RECURSIVE FillRounds(_, _, _, _, _)
FillRounds(NI, NJ, pic, ones, tick_ids) ==
    LET cleared == pic \ {Pixel(one, NI, NJ) : one \in ones}
        collected == tick_ids \o SetToSeq(ones)
        tests == UNION {testids(one) : one \in ones}
        new_ones == {tid \in tests :
                        /\ InRange(tid[1], NI) /\ InRange(tid[2], NJ)
                        /\ Pixel(tid, NI, NJ) \in cleared}
    IN  IF \E tid \in tests : ~InRange(tid[1], NI) \/ ~InRange(tid[2], NJ)
        THEN [err |-> "IndexError", pic |-> cleared, tick_ids |-> collected]
        ELSE IF new_ones = {}
        THEN [err |-> "none", pic |-> cleared, tick_ids |-> collected]
        ELSE FillRounds(NI, NJ, cleared, new_ones, collected)

grow_and_remove_number(NI, NJ, pic, startone) ==
    FillRounds(NI, NJ, pic, {startone}, <<>>)

\* lines 326-328: np.where lists the on-pixels in row-major order and the
\* seed is the first of them
FirstOne(pic) ==
    CHOOSE x \in pic : \A y \in pic : x[1] < y[1] \/ (x[1] = y[1] /\ x[2] <= y[2])

Cells(NI, NJ) == (0..(NI - 1)) \X (0..(NJ - 1))

HarvestIdle ==
    [NI |-> 1, NJ |-> 1, start |-> {}, pic |-> {}, numbers |-> <<>>, pc |-> "loop"]

HarvestInit ==
    \E NI \in 1..MaxFillNI, NJ \in 1..MaxFillNJ :
        \E m \in SUBSET Cells(NI, NJ) :
            hv = [NI |-> NI, NJ |-> NJ, start |-> m, pic |-> m,
                  numbers |-> <<>>, pc |-> "loop"]

\* get_tickvals lines 327-331: one iteration of the while loop
HarvestFill ==
    /\ hv.pc = "loop"
    /\ hv.pic # {}
    /\ LET r == grow_and_remove_number(hv.NI, hv.NJ, hv.pic, FirstOne(hv.pic))
       IN  hv' = [hv EXCEPT !.pic = r.pic,
                            !.numbers = IF r.err = "none"
                                        THEN Append(@, r.tick_ids) ELSE @,
                            !.pc = IF r.err = "none" THEN "loop" ELSE "raised"]
    /\ UNCHANGED <<cv, sc, gt, ax, dl, tk, xy, gb, rt, sd, sq, fl>>

\* get_tickvals line 327: no on-pixel is left and the loop ends
HarvestEnd ==
    /\ hv.pc = "loop"
    /\ hv.pic = {}
    /\ hv' = [hv EXCEPT !.pc = "done"]
    /\ UNCHANGED <<cv, sc, gt, ax, dl, tk, xy, gb, rt, sd, sq, fl>>

(***************************************************************************)
(* detect.py: detect_line and detect_axes.                                 *)
(***************************************************************************)
\* pic[i, :] and pic[:, j] as sequences of 0 and 1
RowOf(pic, i, NJ) == [j \in 1..NJ |-> IF <<i, j - 1>> \in pic THEN 1 ELSE 0]

ColOf(pic, j, NI) == [i \in 1..NI |-> IF <<i - 1, j>> \in pic THEN 1 ELSE 0]

\* detect_line without the length threshold: any run is a line
detect_line_anyrun(v, L) ==
    LET N == Len(v)
        runs == {k \in 1..N : v[k] = 1}
    IN  [err |-> IF L <= N THEN "none" ELSE "AssertionError",
         detect |-> runs # {}, maxL |-> Cardinality(runs)]

\* detect_line measuring the first run in place of the longest one
detect_line_firstrun(v, L) ==
    LET N == Len(v)
        v0 == <<0>> \o v \o <<0>>
        diff == [k \in 0..N |-> v0[k + 2] - v0[k + 1]]
        startids == Sorted({k \in 0..N : diff[k] = 1})
        stopids == Sorted({k \in 0..N : diff[k] = -1})
    IN  IF ~(L <= N)
        THEN [err |-> "AssertionError", detect |-> FALSE, maxL |-> 0]
        ELSE IF Len(startids) = 0
        THEN [err |-> "none", detect |-> FALSE, maxL |-> 0]
        ELSE [err |-> "none", detect |-> (stopids[1] - startids[1]) >= L,
              maxL |-> stopids[1] - startids[1]]

\* detect_line(v, L): [err, detect, maxL]
detect_line(v, L) ==
    IF ~(L <= Len(v))
    THEN [err |-> "AssertionError", detect |-> FALSE, maxL |-> 0]
    ELSE
    LET N == Len(v)
        v0 == <<0>> \o v \o <<0>>
        \* diff[k] for the 0-based position k: v0[k+1] - v0[k]
        diff == [k \in 0..N |-> v0[k + 2] - v0[k + 1]]
        startids == Sorted({k \in 0..N : diff[k] = 1})
        stopids == Sorted({k \in 0..N : diff[k] = -1})
    IN  IF Len(startids) = 0
        THEN [err |-> "none", detect |-> FALSE, maxL |-> 0]
        ELSE IF Len(stopids) = 0
        THEN [err |-> "none", detect |-> (N - startids[1]) >= L,
              maxL |-> N - startids[1]]
        ELSE LET maxL == SetMax({stopids[k] - startids[k] : k \in DOMAIN startids})
             IN  [err |-> "none", detect |-> maxL >= L, maxL |-> maxL]

\* the last position of the largest element, in place of the first
argmax_last(lens) ==
    CHOOSE k \in DOMAIN lens :
        /\ \A m \in DOMAIN lens : lens[k] >= lens[m]
        /\ \A m \in (k + 1)..Len(lens) : lens[m] < lens[k]

\* np.argmax: the first position of the largest element
argmax(lens) ==
    CHOOSE k \in DOMAIN lens :
        /\ \A m \in DOMAIN lens : lens[k] >= lens[m]
        /\ \A m \in 1..(k - 1) : lens[m] < lens[k]

\* int(minlen_axis * N) for minlen_axis = num/den
MinLen(num, den, N) == (num * N) \div den

\* line 89: the I axis index when no column qualifies
FallbackIaxis(NI, NJ) == NI

\* line 90: the J axis index when no row qualifies
FallbackJaxis(NI, NJ) == 0

\* detect_axes(pic, minlen_axis): [err, axes], axes = <<Iaxis, Jaxis>>
detect_axes(NI, NJ, pic, num, den) ==
    LET minI == MinLen(num, den, NI)
        minJ == MinLen(num, den, NJ)
        rowres == [i \in 0..(NI - 1) |-> detect_line(RowOf(pic, i, NJ), minJ)]
        colres == [j \in 0..(NJ - 1) |-> detect_line(ColOf(pic, j, NI), minI)]
        possJaxes == Sorted({i \in 0..(NI - 1) : rowres[i].detect})
        possJlens == [k \in DOMAIN possJaxes |-> rowres[possJaxes[k]].maxL]
        possIaxes == Sorted({j \in 0..(NJ - 1) : colres[j].detect})
        possIlens == [k \in DOMAIN possIaxes |-> colres[possIaxes[k]].maxL]
        Iaxis == IF possIaxes # <<>> THEN possIaxes[argmax(possIlens)]
                 ELSE FallbackIaxis(NI, NJ)
        Jaxis == IF possJaxes # <<>> THEN possJaxes[argmax(possJlens)]
                 ELSE FallbackJaxis(NI, NJ)
    IN  IF \/ \E i \in 0..(NI - 1) : rowres[i].err # "none"
           \/ \E j \in 0..(NJ - 1) : colres[j].err # "none"
        THEN [err |-> "AssertionError", axes |-> <<>>]
        ELSE [err |-> "none", axes |-> <<Iaxis, Jaxis>>]

\* minlen_axis values: the default 0.1, a half and the whole extent
MinlenChoices == {<<1, 10>>, <<1, 2>>, <<1, 1>>}

AxesIdle ==
    [NI |-> 1, NJ |-> 1, pic |-> {}, num |-> 1, den |-> 10, done |-> FALSE,
     res |-> [err |-> "none", axes |-> <<>>]]

AxesInit ==
    \E NI \in 1..MaxAxNI, NJ \in 1..MaxAxNJ, ml \in MinlenChoices :
        \E m \in SUBSET Cells(NI, NJ) :
            ax = [NI |-> NI, NJ |-> NJ, pic |-> m, num |-> ml[1], den |-> ml[2],
                  done |-> FALSE, res |-> [err |-> "none", axes |-> <<>>]]

CallDetectAxes ==
    /\ ~ax.done
    /\ ax' = [ax EXCEPT !.done = TRUE,
                        !.res = detect_axes(ax.NI, ax.NJ, ax.pic, ax.num, ax.den)]
    /\ UNCHANGED <<cv, sc, gt, hv, dl, tk, xy, gb, rt, sd, sq, fl>>

(***************************************************************************)
(* detect.py: detect_line called on its own.                               *)
(***************************************************************************)
\* binary vectors of one to n elements
BinVecs(n) == SeqsUpTo({0, 1}, 1, n)

LineIdle ==
    [v |-> <<>>, L |-> 0, done |-> FALSE,
     res |-> [err |-> "none", detect |-> FALSE, maxL |-> 0]]

\* the threshold runs up to len(v) + 1, one beyond what the assert admits
LineInit ==
    \E v \in BinVecs(MaxLineLen) :
        \E L \in 0..(Len(v) + 1) :
            dl = [v |-> v, L |-> L, done |-> FALSE,
                  res |-> [err |-> "none", detect |-> FALSE, maxL |-> 0]]

CallDetectLine ==
    /\ ~dl.done
    /\ dl' = [dl EXCEPT !.done = TRUE, !.res = detect_line(dl.v, dl.L)]
    /\ UNCHANGED <<cv, sc, gt, hv, ax, tk, xy, gb, rt, sd, sq, fl>>


(***************************************************************************)
(* detect.py: get_ticks and get_tickmeans.                                 *)
(***************************************************************************)
\* int(a / b) for b > 0: the quotient truncated towards zero
TruncDiv(a, b) == IF a >= 0 THEN a \div b ELSE -((-a) \div b)

\* the axis line as it is handed on, without the zeros around it
PadZeros_none(line) == line

\* lines 189-190: [0] + line + [0]
PadZeros(line) == <<0>> \o line \o <<0>>

\* line 214: what get_tickmeans returns when v has no start of a run
NoTickmarks == [err |-> "none", kind |-> "tuple", ticks |-> <<<<0>>, <<0>>>>]

\* get_tickmeans(v): [err, kind, ticks].  kind tells a list of tick indices
\* from the pair of lists of line 214.
get_tickmeans(v) ==
    LET N == Len(v)
        \* diff[k] for the 0-based position k: v[k+1] - v[k]
        diff == [k \in 0..(N - 2) |-> v[k + 2] - v[k + 1]]
        startids == Sorted({k \in 0..(N - 2) : diff[k] = 1})
        stopids == Sorted({k \in 0..(N - 2) : diff[k] = -1})
    IN  IF Len(startids) = 0 THEN NoTickmarks
        ELSE IF Len(stopids) = 0
        THEN [err |-> "ValueError: Tickmark not closed", kind |-> "list",
              ticks |-> <<>>]
        ELSE IF Len(stopids) # Len(startids)
        THEN [err |-> "AssertionError", kind |-> "list", ticks |-> <<>>]
        ELSE [err |-> "none", kind |-> "list",
              ticks |-> [k \in DOMAIN startids |->
                            startids[k] + TruncDiv(stopids[k] - startids[k], 2)]]

TicksErr(e) == [err |-> e, Iticks |-> NoTickmarks, Jticks |-> NoTickmarks]

\* get_ticks(pic_g, axes): [err, Iticks, Jticks]
get_ticks(NI, NJ, pic, axes) ==
    LET Iax_Jval == axes[1]
        Jax_Ival == axes[2]
    IN  IF ~InRange(Iax_Jval, NJ) \/ ~InRange(Jax_Ival, NI)
        THEN TicksErr("IndexError")
        ELSE LET Iaxis == PadZeros(ColOf(pic, Resolve(Iax_Jval, NJ), NI))
                 Jaxis == PadZeros(RowOf(pic, Resolve(Jax_Ival, NI), NJ))
                 Iticks == get_tickmeans(Iaxis)
                 Jticks == get_tickmeans(Jaxis)
             IN  IF Iticks.err # "none" THEN TicksErr(Iticks.err)
                 ELSE IF Jticks.err # "none" THEN TicksErr(Jticks.err)
                 ELSE [err |-> "none", Iticks |-> Iticks, Jticks |-> Jticks]

TicksIdle ==
    [NI |-> 1, NJ |-> 1, pic |-> {}, axes |-> <<0, 0>>, done |-> FALSE,
     res |-> TicksErr("none")]

\* the axes are what detect_axes returns: a column index or the fallback NI,
\* and a row index (the fallback 0 is one)
TicksInit ==
    \E NI \in 1..MaxTkNI, NJ \in 1..MaxTkNJ :
        \E m \in SUBSET Cells(NI, NJ) :
            \E Iaxis \in (0..(NJ - 1)) \cup {FallbackIaxis(NI, NJ)},
               Jaxis \in 0..(NI - 1) :
                tk = [NI |-> NI, NJ |-> NJ, pic |-> m, axes |-> <<Iaxis, Jaxis>>,
                      done |-> FALSE, res |-> TicksErr("none")]

CallGetTicks ==
    /\ ~tk.done
    /\ tk' = [tk EXCEPT !.done = TRUE,
                        !.res = get_ticks(tk.NI, tk.NJ, tk.pic, tk.axes)]
    /\ UNCHANGED <<cv, sc, gt, hv, ax, dl, xy, gb, rt, sd, sq, fl>>


(***************************************************************************)
(* function.py: get_XYfunc.                                                *)
(***************************************************************************)
\* line 59: np.matmul((fij + shift_ij), scale_ij_to_xy) with the scale
\* matrix [[xscale, 0], [0, yscale]]; each row of fij is <<I, mean of J>>
MatmulRow(row, scale, shift) ==
    LET a == QAdd(QInt(row[1]), shift[1])
        b == QAdd(row[2], shift[2])
    IN  <<QAdd(QMul(a, scale[1]), QMul(b, QInt(0))),
          QAdd(QMul(a, QInt(0)), QMul(b, scale[2]))>>

\* get_XYfunc(curveij, ixticks, jyticks, axes): [err, fxy]
get_XYfunc(curveij, ixticks, jyticks, axes) ==
    LET fij == IJcurve_to_IJfunction(curveij)
        ss == get_scaleandshift_IJtoXY(ixticks, jyticks, axes)
    IN  IF ss.err # "none" THEN [err |-> ss.err, fxy |-> <<>>]
        ELSE [err |-> "none",
              fxy |-> [k \in DOMAIN fij |-> MatmulRow(fij[k], ss.scale, ss.shift)]]

XYIdle ==
    [curve |-> <<<<0, 0>>>>, ixticks |-> <<>>, jyticks |-> <<>>, axes |-> <<0, 0>>,
     done |-> FALSE, res |-> [err |-> "none", fxy |-> <<>>]]

\* the curve of IJcurve_to_IJfunction and the ticks and axes of
\* get_scaleandshift_IJtoXY, each axis with one or two ticks (the counts
\* that get_scaleandshift_IJtoXY does not reject)
AcceptedTickLists == {t \in TickLists : Len(t) \in 1..SupportedTicks}

XYInit ==
    \E c \in SeqsUpTo(CurvePoints, 1, MaxCurveLen) :
        \E it \in AcceptedTickLists, jt \in AcceptedTickLists,
           a \in (0..MaxPix) \X (0..MaxPix) :
            xy = [curve |-> c, ixticks |-> it, jyticks |-> jt, axes |-> a,
                  done |-> FALSE, res |-> [err |-> "none", fxy |-> <<>>]]

CallGetXYfunc ==
    /\ ~xy.done
    /\ xy' = [xy EXCEPT !.done = TRUE,
                        !.res = get_XYfunc(xy.curve, xy.ixticks, xy.jyticks, xy.axes)]
    /\ UNCHANGED <<cv, sc, gt, hv, ax, dl, tk, gb, rt, sd, sq, fl>>


(***************************************************************************)
(* function.py: nogibbsdftsample.                                          *)
(* The claims are about how many samples come back, not about their        *)
(* values: an array is modelled as the sequence of the 0-based positions   *)
(* of its elements, so a slice shows which elements it keeps.              *)
(***************************************************************************)
\* int(n * 0.2)
Fifth(n) == n \div 5

\* np.linspace(a, b, num) and every array built elementwise: num elements
Positions(num) == [k \in 1..num |-> k - 1]

\* the bound k of a Python slice of a sequence of n elements
SliceBound(k, n) ==
    IF k < 0 THEN (IF k + n < 0 THEN 0 ELSE k + n)
    ELSE IF k > n THEN n ELSE k

\* s[start:stop]
PySlice(s, start, stop) ==
    SubSeq(s, SliceBound(start, Len(s)) + 1, SliceBound(stop, Len(s)))

\* nogibbsdftsample(x, Nc, Nis, Nos) for x and Nis of P elements:
\* [err, Noutputpoints, x_subsampled]
nogibbsdftsample(P, Nc, Nos) ==
    LET extra == Fifth(P)
        x_extended == Positions(extra + P + extra)
        extra_sample == Fifth(Nos)
        Nsample_extended == Positions(Nos + 2 * extra_sample)
        \* one value per sample position: matmul of X, 2*Nc coefficients,
        \* with the 2*Nc rows of Fsample_extended
        x_extended_subsampled == Positions(Len(Nsample_extended))
        Noutputpoints == Positions(Nos)
        x_subsampled == PySlice(x_extended_subsampled, extra_sample, -extra_sample)
    IN  [err |-> "none", Noutputpoints |-> Noutputpoints,
         x_subsampled |-> x_subsampled]

GibbsIdle ==
    [P |-> 1, Nc |-> 1, Nos |-> 1, done |-> FALSE,
     res |-> [err |-> "none", Noutputpoints |-> <<>>, x_subsampled |-> <<>>]]

GibbsInit ==
    \E P \in 1..MaxSignalLen, Nc \in 1..MaxNc, Nos \in 1..MaxNos :
        gb = [P |-> P, Nc |-> Nc, Nos |-> Nos, done |-> FALSE,
              res |-> [err |-> "none", Noutputpoints |-> <<>>, x_subsampled |-> <<>>]]

CallNogibbsdftsample ==
    /\ ~gb.done
    /\ gb' = [gb EXCEPT !.done = TRUE,
                        !.res = nogibbsdftsample(gb.P, gb.Nc, gb.Nos)]
    /\ UNCHANGED <<cv, sc, gt, hv, ax, dl, tk, xy, rt, sd, sq, fl>>


(***************************************************************************)
(* detect.py: remove_tick.  Its loop (lines 283-304) is the loop of        *)
(* grow_and_remove_number (lines 467-488) word for word.                   *)
(***************************************************************************)
\* remove_tick(pic, J, I): [err, pic, tick_ids]
remove_tick(NI, NJ, pic, J, I) == FillRounds(NI, NJ, pic, {<<I, J>>}, <<>>)

RemoveIdle ==
    [NI |-> 1, NJ |-> 1, pic |-> {}, I |-> 0, J |-> 0, done |-> FALSE,
     res |-> [err |-> "none", pic |-> {}, tick_ids |-> <<>>]]

\* remove_ticks seeds the fill at a tick midpoint on an axis line, which
\* get_tickmeans places on an on-pixel
RemoveInit ==
    \E NI \in 1..MaxFillNI, NJ \in 1..MaxFillNJ :
        \E m \in SUBSET Cells(NI, NJ) :
            \E seed \in m :
                rt = [NI |-> NI, NJ |-> NJ, pic |-> m, I |-> seed[1], J |-> seed[2],
                      done |-> FALSE,
                      res |-> [err |-> "none", pic |-> {}, tick_ids |-> <<>>]]

CallRemoveTick ==
    /\ ~rt.done
    /\ rt' = [rt EXCEPT !.done = TRUE,
                        !.res = remove_tick(rt.NI, rt.NJ, rt.pic, rt.J, rt.I)]
    /\ UNCHANGED <<cv, sc, gt, hv, ax, dl, tk, xy, gb, sd, sq, fl>>


(***************************************************************************)
(* detect.py: sort_digits_in_numbers.                                      *)
(* A digit is the array of its pixels <<I, J>>, a number a list of digits. *)
(***************************************************************************)
\* line 438: np.min(digit[:,0])
least_I(digit) == SetMin({digit[k][1] : k \in DOMAIN digit})

\* sorted(zip(least_I_vals, number)) compares the pairs (least_I, digit) as
\* tuples: two pairs of equal least_I are ordered by comparing the digits,
\* and comparing two numpy arrays of more than one element as a truth value
\* raises ValueError.  A digit is an n x 2 array, so it has two or more
\* elements.
SortRaises(number) ==
    \E a, b \in DOMAIN number : a # b /\ least_I(number[a]) = least_I(number[b])

\* the digits of number by ascending least_I, all least_I being different
RECURSIVE SortedByLeastI(_)
SortedByLeastI(number) ==
    IF number = <<>> THEN <<>>
    ELSE LET k == CHOOSE a \in DOMAIN number :
                      \A b \in DOMAIN number : least_I(number[a]) <= least_I(number[b])
         IN  <<number[k]>> \o
             SortedByLeastI(SubSeq(number, 1, k - 1) \o
                            SubSeq(number, k + 1, Len(number)))

\* sort_digits_in_numbers(numbers): [err, sorted_numbers]
sort_digits_in_numbers(numbers) ==
    IF \E n \in DOMAIN numbers : numbers[n] = <<>>
    THEN [err |-> "ValueError: not enough values to unpack", sorted_numbers |-> <<>>]
    ELSE IF \E n \in DOMAIN numbers : SortRaises(numbers[n])
    THEN [err |-> "ValueError: truth value of an array is ambiguous",
          sorted_numbers |-> <<>>]
    ELSE [err |-> "none",
          sorted_numbers |-> [n \in DOMAIN numbers |-> SortedByLeastI(numbers[n])]]

\* digits: one pixel, or two pixels one above the other, the lower row last
SortDigits ==
    {<<p>> : p \in (0..MaxSortRow) \X (0..MaxSortCol)}
    \cup {<<<<p[1] + 1, p[2]>>, p>> : p \in (0..(MaxSortRow - 1)) \X (0..MaxSortCol)}

\* the digits of all numbers are pairwise disjoint pixel sets
SortNumbers ==
    {ns \in SeqsUpTo(UNION {InjSeqs(SortDigits, n) : n \in 1..MaxSortDigits},
                     1, MaxNumbers) :
        \A g, h \in DOMAIN ns : \A a \in DOMAIN ns[g], b \in DOMAIN ns[h] :
            (g # h \/ a # b) => Range(ns[g][a]) \cap Range(ns[h][b]) = {}}

SortIdle == [numbers |-> <<>>, done |-> FALSE,
             res |-> [err |-> "none", sorted_numbers |-> <<>>]]

SortInit ==
    \E ns \in SortNumbers :
        sd = [numbers |-> ns, done |-> FALSE,
              res |-> [err |-> "none", sorted_numbers |-> <<>>]]

CallSortDigits ==
    /\ ~sd.done
    /\ sd' = [sd EXCEPT !.done = TRUE, !.res = sort_digits_in_numbers(sd.numbers)]
    /\ UNCHANGED <<cv, sc, gt, hv, ax, dl, tk, xy, gb, rt, sq, fl>>


(***************************************************************************)
(* detect.py: make_square.                                                 *)
(***************************************************************************)
\* lines 420-425: the index pair at which the pixel (i, j) of the digit,
\* already moved to the origin, is written
SquareIndex(i, j, shift, delta) ==
    IF delta > 0 THEN <<i + shift + delta, j + shift>>
    ELSE IF delta < 0 THEN <<i + shift, j + shift + delta>>
    ELSE <<i + shift, j + shift>>

\* make_square(digit): [err, side, written, digit_array].  written lists
\* the index pair used for each pixel of digit, digit_array is the set of
\* the cells of the side x side array that are 1.
make_square(digit) ==
    LET I_min == SetMin({digit[k][1] : k \in DOMAIN digit})
        J_min == SetMin({digit[k][2] : k \in DOMAIN digit})
        moved == [k \in DOMAIN digit |-> <<digit[k][1] - I_min, digit[k][2] - J_min>>]
        I_max == SetMax({moved[k][1] : k \in DOMAIN digit})
        J_max == SetMax({moved[k][2] : k \in DOMAIN digit})
        N_max == SetMax({I_max + 1, J_max + 1})
        shift == TruncDiv(N_max, 8)
        delta == TruncDiv(J_max - I_max, 2)
        side == N_max + shift * 2
        written == [k \in DOMAIN digit |->
                       SquareIndex(moved[k][1], moved[k][2], shift, delta)]
    IN  IF \E k \in DOMAIN digit :
               ~InRange(written[k][1], side) \/ ~InRange(written[k][2], side)
        THEN [err |-> "IndexError", side |-> side, written |-> written,
              digit_array |-> {}]
        ELSE [err |-> "none", side |-> side, written |-> written,
              digit_array |-> {Pixel(written[k], side, side) : k \in DOMAIN digit}]

SquareIdle ==
    [digit |-> <<<<0, 0>>>>, done |-> FALSE,
     res |-> [err |-> "none", side |-> 0, written |-> <<>>, digit_array |-> {}]]

\* a digit is a non-empty list of distinct pixels
SquareInit ==
    \E S \in (SUBSET ((0..MaxSqRow) \X (0..MaxSqCol))) \ {{}} :
        sq = [digit |-> SetToSeq(S), done |-> FALSE,
              res |-> [err |-> "none", side |-> 0, written |-> <<>>,
                       digit_array |-> {}]]

CallMakeSquare ==
    /\ ~sq.done
    /\ sq' = [sq EXCEPT !.done = TRUE, !.res = make_square(sq.digit)]
    /\ UNCHANGED <<cv, sc, gt, hv, ax, dl, tk, xy, gb, rt, sd, fl>>


(***************************************************************************)
(* detect.py: the flood fills round by round.  remove_ticks runs           *)
(* remove_tick on the mask and get_tickvals then harvests what is left     *)
(* with grow_and_remove_number (main.py lines 50-51); here one tick at     *)
(* most is removed.  Each pass of the while loop of a fill (lines 283-303  *)
(* and 471-487) is one step.                                               *)
(***************************************************************************)
\* lines 292-297: testids in the order of the list
TestList(one) ==
    LET i == one[1]
        j == one[2]
    IN  <<<<i + 1, j + 1>>, <<i + 1, j>>, <<i + 1, j - 1>>, <<i, j + 1>>,
          <<i, j - 1>>, <<i - 1, j + 1>>, <<i - 1, j>>, <<i - 1, j - 1>>>>

\* lines 298-300: the places in testids whose lookup raises IndexError
FaultsOf(NI, NJ, one) ==
    {k \in 1..8 : \/ ~InRange(TestList(one)[k][1], NI)
                  \/ ~InRange(TestList(one)[k][2], NJ)}

\* lines 298-300: the lookups made for one frontier pixel: all eight, or
\* those up to and with the first one that raises IndexError
LookupsOf(NI, NJ, one) ==
    IF FaultsOf(NI, NJ, one) = {} THEN Range(TestList(one))
    ELSE {TestList(one)[k] : k \in 1..SetMin(FaultsOf(NI, NJ, one))}

\* the place of two frontier pixels in the list SetToSeq gives
Before(p, one) == p[1] < one[1] \/ (p[1] = one[1] /\ p[2] < one[2])

\* lines 292-300: the lookups made in one pass over the frontier: a pixel
\* is reached when no pixel before it has raised
LookupsMade(NI, NJ, ones) ==
    UNION {LookupsOf(NI, NJ, one) :
             one \in {o \in ones : \A p \in ones :
                         Before(p, o) => FaultsOf(NI, NJ, p) = {}}}

\* one pass of the while loop: [err, pic, tick_ids, ones, tests].  tests
\* are the index pairs of the neighbour lookups made in the pass.  The
\* frontier list is taken in the order SetToSeq gives it.
WhileRound(NI, NJ, pic, ones, tick_ids) ==
    LET cleared == pic \ {Pixel(one, NI, NJ) : one \in ones}
        collected == tick_ids \o SetToSeq(ones)
        tests == UNION {testids(one) : one \in ones}
        new_ones == {tid \in tests :
                        /\ InRange(tid[1], NI) /\ InRange(tid[2], NJ)
                        /\ Pixel(tid, NI, NJ) \in cleared}
        made == LookupsMade(NI, NJ, ones)
    IN  IF \E tid \in tests : ~InRange(tid[1], NI) \/ ~InRange(tid[2], NJ)
        THEN [err |-> "IndexError", pic |-> cleared, tick_ids |-> collected,
              ones |-> ones, tests |-> made]
        ELSE [err |-> "none", pic |-> cleared, tick_ids |-> collected,
              ones |-> new_ones, tests |-> made]

FillIdle ==
    [NI |-> 1, NJ |-> 1, pic |-> {}, fn |-> "none", ones |-> {},
     tick_ids |-> <<>>, lookups |-> {}, removed |-> <<>>, numbers |-> <<>>,
     pc |-> "loop"]

\* either remove_tick has just been entered with an on seed (a tick
\* midpoint), or there is no tick and get_tickvals is about to test its
\* while condition
FillInit ==
    \E NI \in 1..MaxFillNI, NJ \in 1..MaxFillNJ :
        \E m \in SUBSET Cells(NI, NJ) :
            \/ \E seed \in m :
                   fl = [NI |-> NI, NJ |-> NJ, pic |-> m, fn |-> "remove_tick",
                         ones |-> {seed}, tick_ids |-> <<>>, lookups |-> {},
                         removed |-> <<>>, numbers |-> <<>>, pc |-> "round"]
            \/ fl = [NI |-> NI, NJ |-> NJ, pic |-> m, fn |-> "none",
                     ones |-> {}, tick_ids |-> <<>>, lookups |-> {},
                     removed |-> <<>>, numbers |-> <<>>, pc |-> "loop"]

\* lines 283-303 and 471-487: one pass of the while loop of the running
\* fill; the fill returns when the new frontier is empty
FillRound ==
    /\ fl.pc = "round"
    /\ \E r \in {WhileRound(fl.NI, fl.NJ, fl.pic, fl.ones, fl.tick_ids)} :
       LET returns == r.err = "none" /\ r.ones = {}
       IN  fl' = [fl EXCEPT
                    !.pic = r.pic,
                    !.ones = r.ones,
                    !.tick_ids = r.tick_ids,
                    !.lookups = @ \cup r.tests,
                    !.removed = IF returns /\ fl.fn = "remove_tick"
                                THEN Append(@, r.tick_ids) ELSE @,
                    !.numbers = IF returns /\ fl.fn = "grow_and_remove_number"
                                THEN Append(@, r.tick_ids) ELSE @,
                    !.pc = IF r.err # "none" THEN "raised"
                           ELSE IF returns THEN "loop" ELSE "round"]
    /\ UNCHANGED <<cv, sc, gt, hv, ax, dl, tk, xy, gb, rt, sd, sq>>

\* get_tickvals lines 326-329: an on-pixel is left, and
\* grow_and_remove_number is entered with the first of them as its seed
FillSeed ==
    /\ fl.pc = "loop"
    /\ fl.pic # {}
    /\ fl' = [fl EXCEPT !.fn = "grow_and_remove_number",
                        !.ones = {FirstOne(fl.pic)},
                        !.tick_ids = <<>>,
                        !.lookups = {},
                        !.pc = "round"]
    /\ UNCHANGED <<cv, sc, gt, hv, ax, dl, tk, xy, gb, rt, sd, sq>>

\* get_tickvals line 327: no on-pixel is left and the loop ends
FillEnd ==
    /\ fl.pc = "loop"
    /\ fl.pic = {}
    /\ fl' = [fl EXCEPT !.pc = "done"]
    /\ UNCHANGED <<cv, sc, gt, hv, ax, dl, tk, xy, gb, rt, sd, sq>>


(***************************************************************************)
(* Specifications: one per component, the other components idle.           *)
(***************************************************************************)
InitCurve ==
    /\ CurveInit
    /\ sc = ScaleIdle /\ gt = GroupIdle /\ hv = HarvestIdle
    /\ ax = AxesIdle /\ dl = LineIdle /\ tk = TicksIdle
    /\ xy = XYIdle /\ gb = GibbsIdle /\ rt = RemoveIdle
    /\ sd = SortIdle /\ sq = SquareIdle
    /\ fl = FillIdle

NextCurve == CallIJcurve

SpecCurve == InitCurve /\ [][NextCurve]_vars

InitScale ==
    /\ ScaleInit
    /\ cv = CurveIdle /\ gt = GroupIdle /\ hv = HarvestIdle
    /\ ax = AxesIdle /\ dl = LineIdle /\ tk = TicksIdle
    /\ xy = XYIdle /\ gb = GibbsIdle /\ rt = RemoveIdle
    /\ sd = SortIdle /\ sq = SquareIdle
    /\ fl = FillIdle

NextScale == CallScaleAndShift

SpecScale == InitScale /\ [][NextScale]_vars

InitGroup ==
    /\ GroupInit
    /\ cv = CurveIdle /\ sc = ScaleIdle /\ hv = HarvestIdle
    /\ ax = AxesIdle /\ dl = LineIdle /\ tk = TicksIdle
    /\ xy = XYIdle /\ gb = GibbsIdle /\ rt = RemoveIdle
    /\ sd = SortIdle /\ sq = SquareIdle
    /\ fl = FillIdle

NextGroup == CallGroupTicks

SpecGroup == InitGroup /\ [][NextGroup]_vars

InitHarvest ==
    /\ HarvestInit
    /\ cv = CurveIdle /\ sc = ScaleIdle /\ gt = GroupIdle
    /\ ax = AxesIdle /\ dl = LineIdle /\ tk = TicksIdle
    /\ xy = XYIdle /\ gb = GibbsIdle /\ rt = RemoveIdle
    /\ sd = SortIdle /\ sq = SquareIdle
    /\ fl = FillIdle

NextHarvest == HarvestFill \/ HarvestEnd

SpecHarvest == InitHarvest /\ [][NextHarvest]_vars

InitAxes ==
    /\ AxesInit
    /\ cv = CurveIdle /\ sc = ScaleIdle /\ gt = GroupIdle
    /\ hv = HarvestIdle /\ dl = LineIdle /\ tk = TicksIdle
    /\ xy = XYIdle /\ gb = GibbsIdle /\ rt = RemoveIdle
    /\ sd = SortIdle /\ sq = SquareIdle
    /\ fl = FillIdle

NextAxes == CallDetectAxes

SpecAxes == InitAxes /\ [][NextAxes]_vars

InitLine ==
    /\ LineInit
    /\ cv = CurveIdle /\ sc = ScaleIdle /\ gt = GroupIdle
    /\ hv = HarvestIdle /\ ax = AxesIdle /\ tk = TicksIdle
    /\ xy = XYIdle /\ gb = GibbsIdle /\ rt = RemoveIdle
    /\ sd = SortIdle /\ sq = SquareIdle
    /\ fl = FillIdle

NextLine == CallDetectLine

SpecLine == InitLine /\ [][NextLine]_vars

InitTicks ==
    /\ TicksInit
    /\ cv = CurveIdle /\ sc = ScaleIdle /\ gt = GroupIdle
    /\ hv = HarvestIdle /\ ax = AxesIdle /\ dl = LineIdle
    /\ xy = XYIdle /\ gb = GibbsIdle /\ rt = RemoveIdle
    /\ sd = SortIdle /\ sq = SquareIdle
    /\ fl = FillIdle

NextTicks == CallGetTicks

SpecTicks == InitTicks /\ [][NextTicks]_vars

InitXY ==
    /\ XYInit
    /\ cv = CurveIdle /\ sc = ScaleIdle /\ gt = GroupIdle
    /\ hv = HarvestIdle /\ ax = AxesIdle /\ dl = LineIdle
    /\ tk = TicksIdle /\ gb = GibbsIdle /\ rt = RemoveIdle
    /\ sd = SortIdle /\ sq = SquareIdle
    /\ fl = FillIdle

NextXY == CallGetXYfunc

SpecXY == InitXY /\ [][NextXY]_vars

InitGibbs ==
    /\ GibbsInit
    /\ cv = CurveIdle /\ sc = ScaleIdle /\ gt = GroupIdle
    /\ hv = HarvestIdle /\ ax = AxesIdle /\ dl = LineIdle
    /\ tk = TicksIdle /\ xy = XYIdle /\ rt = RemoveIdle
    /\ sd = SortIdle /\ sq = SquareIdle
    /\ fl = FillIdle

NextGibbs == CallNogibbsdftsample

SpecGibbs == InitGibbs /\ [][NextGibbs]_vars

InitRemove ==
    /\ RemoveInit
    /\ cv = CurveIdle /\ sc = ScaleIdle /\ gt = GroupIdle
    /\ hv = HarvestIdle /\ ax = AxesIdle /\ dl = LineIdle
    /\ tk = TicksIdle /\ xy = XYIdle /\ gb = GibbsIdle
    /\ sd = SortIdle /\ sq = SquareIdle
    /\ fl = FillIdle

NextRemove == CallRemoveTick

SpecRemove == InitRemove /\ [][NextRemove]_vars

InitSort ==
    /\ SortInit
    /\ cv = CurveIdle /\ sc = ScaleIdle /\ gt = GroupIdle
    /\ hv = HarvestIdle /\ ax = AxesIdle /\ dl = LineIdle
    /\ tk = TicksIdle /\ xy = XYIdle /\ gb = GibbsIdle
    /\ rt = RemoveIdle /\ sq = SquareIdle
    /\ fl = FillIdle

NextSort == CallSortDigits

SpecSort == InitSort /\ [][NextSort]_vars

InitSquare ==
    /\ SquareInit
    /\ cv = CurveIdle /\ sc = ScaleIdle /\ gt = GroupIdle
    /\ hv = HarvestIdle /\ ax = AxesIdle /\ dl = LineIdle
    /\ tk = TicksIdle /\ xy = XYIdle /\ gb = GibbsIdle
    /\ rt = RemoveIdle /\ sd = SortIdle
    /\ fl = FillIdle

NextSquare == CallMakeSquare

SpecSquare == InitSquare /\ [][NextSquare]_vars

InitFill ==
    /\ FillInit
    /\ cv = CurveIdle /\ sc = ScaleIdle /\ gt = GroupIdle
    /\ hv = HarvestIdle /\ ax = AxesIdle /\ dl = LineIdle
    /\ tk = TicksIdle /\ xy = XYIdle /\ gb = GibbsIdle
    /\ rt = RemoveIdle /\ sd = SortIdle /\ sq = SquareIdle

NextFill == FillRound \/ FillSeed \/ FillEnd

\* the interpreter runs the function on as long as a statement is left to
\* run: a step that is possible is taken
SpecFill == InitFill /\ [][NextFill]_vars /\ WF_vars(NextFill)


(***************************************************************************)
(* Properties of IJcurve_to_IJfunction (SpecCurve).                        *)
(***************************************************************************)
QEq(a, b) == a.d # 0 /\ b.d # 0 /\ a.n * b.d = b.n * a.d

CurveRows(curve) == {curve[k][1] : k \in DOMAIN curve}

RECURSIVE SumCols(_, _)
SumCols(curve, K) ==
    IF K = {} THEN 0
    ELSE LET k == CHOOSE x \in K : TRUE
         IN  curve[k][2] + SumCols(curve, K \ {k})

\* the arithmetic mean of the columns of the curve points of row r
RowMean(curve, r) ==
    LET K == {k \in DOMAIN curve : curve[k][1] = r}
    IN  Q(SumCols(curve, K), Cardinality(K))

\* C1: for a non-empty curve IJcurve_to_IJfunction returns exactly one pair
\* (row, meanCol) for each distinct row of the curve, the largest row
\* included, in ascending row order, meanCol being the mean of the columns
\* of the points of that row.
C1_OnePairPerDistinctRow ==
    cv.done =>
        /\ Len(cv.fij) = Cardinality(CurveRows(cv.curve))
        /\ \A k \in 1..(Len(cv.fij) - 1) : cv.fij[k][1] < cv.fij[k + 1][1]
        /\ \A r \in CurveRows(cv.curve) :
               \E k \in DOMAIN cv.fij :
                   cv.fij[k][1] = r /\ QEq(cv.fij[k][2], RowMean(cv.curve, r))

(***************************************************************************)
(* Properties of get_scaleandshift_IJtoXY (SpecScale).                     *)
(***************************************************************************)
Returned == sc.done /\ sc.res.err = "none"

\* the reference points <<pixel, value>> of an axis as the specification
\* names them: the two ticks, or the lone tick and the crosspoint with
\* data value 0
RefPoints(ticks, cross) ==
    IF Len(ticks) = 2 THEN {ticks[1], ticks[2]} ELSE {ticks[1], <<cross, 0>>}

MapsTo(p, v, axis) ==
    QEqInt(MapCoord(p, sc.res.scale[axis], sc.res.shift[axis]), v)

\* C2: the returned map xy = scale * (ij + shift) sends every reference
\* point to its reference value, on each axis: both ticks when the axis has
\* two, else the lone tick to its value and the crosspoint to 0.
C2_ReferencePointsMapped ==
    Returned =>
        /\ \A rp \in RefPoints(sc.ixticks, sc.axes[2]) : MapsTo(rp[1], rp[2], 1)
        /\ \A rp \in RefPoints(sc.jyticks, sc.axes[1]) : MapsTo(rp[1], rp[2], 2)

LoneZeroTick(ticks) == Len(ticks) = 1 /\ ticks[1][2] = 0

\* C3: get_scaleandshift_IJtoXY raises, and returns no scale and shift,
\* whenever an axis has exactly one tick and the value of that tick is 0.
C3_LoneZeroTickRaises ==
    sc.done =>
        (LoneZeroTick(sc.ixticks) \/ LoneZeroTick(sc.jyticks) => sc.res.err # "none")

NoTicksErrors ==
    {"AssertionError: No ticks found in I axis",
     "AssertionError: No ticks found in J axis"}

SomeAxisEmpty == Len(sc.ixticks) = 0 \/ Len(sc.jyticks) = 0

SomeAxisOver == Len(sc.ixticks) > 2 \/ Len(sc.jyticks) > 2

QNonZeroFinite(a) == a.d # 0 /\ a.n # 0

\* C5: whenever get_scaleandshift_IJtoXY returns, both diagonal scale
\* factors are non-zero finite numbers and the shift is finite.
C5_ScaleNonZeroFinite ==
    Returned =>
        /\ QNonZeroFinite(sc.res.scale[1]) /\ QNonZeroFinite(sc.res.scale[2])
        /\ QIsFinite(sc.res.shift[1]) /\ QIsFinite(sc.res.shift[2])


(***************************************************************************)
(* Properties of group_ticks (SpecGroup).                                  *)
(***************************************************************************)
Grouped == gt.done /\ gt.res.err = "none"

\* how many times the object d is a digit of some group
Occurrences(groups, d) ==
    Cardinality({<<g, e>> \in (DOMAIN groups) \X (1..(MaxGDigits + MaxGTicks + 1)) :
                    e \in 2..Len(groups[g]) /\ groups[g][e] = d})

RECURSIVE DigitCount(_)
DigitCount(groups) ==
    IF groups = <<>> THEN 0 ELSE (Len(Head(groups)) - 1) + DigitCount(Tail(groups))

\* C6: when group_ticks returns, every input glyph is in exactly one group
\* (the glyph counts of the groups sum to the number of input glyphs) and
\* every group is its tick followed by at least one glyph; with fewer
\* glyphs than ticks the call raises.
C6_GroupsPartitionGlyphs ==
    gt.done =>
        /\ Len(gt.digits) < Len(gt.ticks) => gt.res.err # "none"
        /\ gt.res.err = "none" =>
               /\ Len(gt.res.groups) = Len(gt.ticks)
               /\ \A g \in DOMAIN gt.res.groups :
                      /\ gt.res.groups[g][1] = gt.ticks[g]
                      /\ Len(gt.res.groups[g]) >= 2
               /\ \A d \in Range(gt.digits) : Occurrences(gt.res.groups, d) = 1
               /\ DigitCount(gt.res.groups) = Len(gt.digits)

\* two ticks and five glyphs have been grouped: three glyphs went through
\* the second phase
C6_Witness ==
    Grouped /\ Len(gt.ticks) = 2 /\ Len(gt.digits) = 5 /\ Len(gt.res.log) = 3

\* C7: every glyph assigned in the second phase is appended to the group
\* whose closest-pixel squared distance to that glyph is smallest at the
\* time of the assignment, for any number of remaining glyphs.
C7_AssignedToNearestGroup ==
    Grouped =>
        \A k \in DOMAIN gt.res.log :
            LET e == gt.res.log[k]
            IN  \A g \in DOMAIN e.groups :
                    GroupDist(e.groups[e.group], e.digit) <= GroupDist(e.groups[g], e.digit)

(***************************************************************************)
(* Properties of the glyph harvest (SpecHarvest).                          *)
(***************************************************************************)
\* every index pair collected by the fills, as <<fill, position>>
Collected ==
    {<<f, k>> \in (DOMAIN hv.numbers) \X (1..(2 * hv.NI * hv.NJ)) :
        k \in DOMAIN hv.numbers[f]}

PixelOf(c) == Pixel(hv.numbers[c[1]][c[2]], hv.NI, hv.NJ)

\* C8: when the harvest loop ends, the fills have partitioned the on-pixels
\* of the mask: no pixel is collected twice, in one fill or in two, the
\* number of collected coordinates is the number of on-pixels at the start,
\* every collected coordinate is an on-pixel of the start, and the mask is
\* all zero.
C8_HarvestPartitionsMask ==
    hv.pc = "done" =>
        /\ \A c, d \in Collected : c # d => PixelOf(c) # PixelOf(d)
        /\ Cardinality(Collected) = Cardinality(hv.start)
        /\ \A c \in Collected : PixelOf(c) \in hv.start
        /\ hv.pic = {}

(***************************************************************************)
(* Properties of detect_axes (SpecAxes).                                   *)
(***************************************************************************)
\* v has a run of 1s of length L or more (a run has at least one pixel)
HasRun(v, L) ==
    \E a, b \in DOMAIN v :
        /\ a <= b
        /\ b - a + 1 >= L
        /\ \A k \in a..b : v[k] = 1

NoAxisToFind ==
    /\ \A i \in 0..(ax.NI - 1) :
           ~HasRun(RowOf(ax.pic, i, ax.NJ), MinLen(ax.num, ax.den, ax.NJ))
    /\ \A j \in 0..(ax.NJ - 1) :
           ~HasRun(ColOf(ax.pic, j, ax.NI), MinLen(ax.num, ax.den, ax.NI))

\* C9: detect_axes never raises, and on a mask in which no row and no
\* column has a run that reaches the minimum axis length it returns the
\* fallback pair (height, 0), the height being the number of rows NI.
C9_AxisFallback ==
    ax.done =>
        /\ ax.res.err = "none"
        /\ NoAxisToFind => ax.res.axes = <<ax.NI, 0>>

\* a mask that is not all zero, with runs too short to be an axis, has been
\* given the fallback pair
C9_Witness ==
    /\ ax.done
    /\ ax.pic # {}
    /\ NoAxisToFind
    /\ ax.res.axes = <<ax.NI, 0>>

\* C10: both indices of the pair returned by detect_axes are indices
\* get_ticks can slice the mask with: pic_g[:, axes[0]] needs a column
\* index below NJ and pic_g[axes[1], :] a row index below NI.
C10_AxesWithinMask ==
    ax.done /\ ax.res.err = "none" =>
        /\ ax.res.axes[1] \in 0..(ax.NJ - 1)
        /\ ax.res.axes[2] \in 0..(ax.NI - 1)

(***************************************************************************)
(* C11: detect_line and the longest run of 1s.                             *)
(***************************************************************************)
\* the length of the longest run of 1s of v, 0 when v has no 1
LongestRun(v) == SetMax({0} \cup {n \in 1..Len(v) : HasRun(v, n)})

LineReturned == dl.done /\ dl.L <= Len(dl.v)

\* C11 as stated: for every binary vector v and threshold L <= len(v),
\* detect_line returns (m >= L, m), m the length of the longest run of 1s,
\* and (False, 0) for a vector with no 1s.
C11_LongestRunAgainstThreshold ==
    LineReturned =>
        /\ dl.res.err = "none"
        /\ dl.res.maxL = LongestRun(dl.v)
        /\ dl.res.detect = (LongestRun(dl.v) >= dl.L)
        /\ (\A k \in DOMAIN dl.v : dl.v[k] = 0) =>
               (dl.res.detect = FALSE /\ dl.res.maxL = 0)

\* C11 amended: detect_line returns (m >= L, m) for every vector that has
\* a 1, and (False, 0) for every vector with no 1s, whatever the threshold:
\* a threshold of 0 is not met by a vector without 1s.
C11_LongestRunUnlessNoOnes ==
    LineReturned =>
        /\ dl.res.err = "none"
        /\ dl.res.maxL = LongestRun(dl.v)
        /\ dl.res.detect = (LongestRun(dl.v) >= dl.L /\ LongestRun(dl.v) > 0)

\* two runs, the longer one touching the last element, and it is detected
C11_Witness ==
    /\ LineReturned
    /\ Len(dl.v) = 4
    /\ dl.v = <<1, 0, 1, 1>>
    /\ dl.L = 2
    /\ dl.res = [err |-> "none", detect |-> TRUE, maxL |-> 2]

(***************************************************************************)
(* C12, C16: get_ticks on the two axis lines.                              *)
(***************************************************************************)
\* get_ticks was called with axes that index the mask
TicksCalled == tk.done /\ tk.axes[1] < tk.NJ /\ tk.axes[2] < tk.NI

\* the axis lines, as sequences of 0 and 1 (element k + 1 is pixel k)
ILine == ColOf(tk.pic, tk.axes[1], tk.NI)

JLine == RowOf(tk.pic, tk.axes[2], tk.NJ)

\* the last pixel of the line is on: a run is open at the end of the line
OpenAtEnd(line) == line[Len(line)] = 1

\* the 0-based index of the first pixel of the run that ends the line
FinalRunStart(line) ==
    SetMin({a \in 1..Len(line) : \A k \in a..Len(line) : line[k] = 1}) - 1

MaximalRuns(line) ==
    {r \in (0..(Len(line) - 1)) \X (0..(Len(line) - 1)) :
        /\ r[1] <= r[2]
        /\ \A k \in r[1]..r[2] : line[k + 1] = 1
        /\ r[1] = 0 \/ line[r[1]] = 0
        /\ r[2] = Len(line) - 1 \/ line[r[2] + 2] = 0}

\* one midpoint per maximal run, in ascending order
Midpoints(line) ==
    Sorted({r[1] + ((r[2] - r[1] + 1) \div 2) : r \in MaximalRuns(line)})

\* C16: get_ticks returns for each axis line a list with one entry per
\* maximal run of on-pixels, the empty list when the line has no run, in
\* ascending order, each entry start + floor(length/2) as an index of the
\* line.
C16_OneMidpointPerRun ==
    TicksCalled =>
        /\ tk.res.err = "none"
        /\ tk.res.Iticks.kind = "list"
        /\ tk.res.Jticks.kind = "list"
        /\ tk.res.Iticks.ticks = Midpoints(ILine)
        /\ tk.res.Jticks.ticks = Midpoints(JLine)

(***************************************************************************)
(* C13: the points of get_XYfunc.                                          *)
(***************************************************************************)
\* C13: for every tick configuration that get_scaleandshift_IJtoXY accepts,
\* the (x, y) points returned by get_XYfunc are one per distinct row of the
\* curve and strictly increasing in x.
C13_PointsIncreaseInX ==
    (xy.done /\ xy.res.err = "none") =>
        /\ Len(xy.res.fxy) = Cardinality(CurveRows(xy.curve))
        /\ \A k \in 1..(Len(xy.res.fxy) - 1) :
               QLess(xy.res.fxy[k][1], xy.res.fxy[k + 1][1])

(***************************************************************************)
(* C14: the sample counts of nogibbsdftsample.                             *)
(***************************************************************************)
\* C14: for every Nos >= 1 and every input length nogibbsdftsample returns
\* exactly Nos value samples paired with exactly Nos output positions: of
\* the Nos + 2*extra samples computed, extra = int(0.2*Nos), the first and
\* the last extra are dropped.
C14_NosSamplesReturned ==
    gb.done =>
        /\ gb.res.err = "none"
        /\ Len(gb.res.Noutputpoints) = gb.Nos
        /\ Len(gb.res.x_subsampled) = gb.Nos
        /\ gb.res.x_subsampled =
               [k \in 1..gb.Nos |-> Fifth(gb.Nos) + k - 1]

(***************************************************************************)
(* C15: remove_tick and the connected component of its seed.               *)
(***************************************************************************)
\* two distinct pixels that touch by an edge or a corner
Adjacent8(p, q) ==
    /\ p # q
    /\ p[1] - q[1] \in {-1, 0, 1}
    /\ p[2] - q[2] \in {-1, 0, 1}

\* the on-pixels of pic reachable from the pixels of S by 8-adjacency
RECURSIVE Connected8(_, _)
Connected8(pic, S) ==
    LET T == S \cup {p \in pic : \E q \in S : Adjacent8(p, q)}
    IN  IF T = S THEN S ELSE Connected8(pic, T)

SeedComponent == Connected8(rt.pic, {<<rt.I, rt.J>>})

\* C15: remove_tick called on a mask whose seed pixel is on clears exactly
\* the pixels of the 8-connected component of the seed, leaves every other
\* pixel as it was, and returns exactly the pixels of that component.
C15_ClearsSeedComponent ==
    rt.done =>
        /\ rt.res.err = "none"
        /\ rt.res.pic = rt.pic \ SeedComponent
        /\ Len(rt.res.tick_ids) = Cardinality(SeedComponent)
        /\ Range(rt.res.tick_ids) = SeedComponent

(***************************************************************************)
(* C17: the axis detect_axes selects among the qualifying lines.           *)
(***************************************************************************)
AxRow(i) == RowOf(ax.pic, i, ax.NJ)

AxCol(j) == ColOf(ax.pic, j, ax.NI)

\* the rows with a run of at least int(minlen_axis * NJ) pixels, and the
\* columns with a run of at least int(minlen_axis * NI) pixels
QualifyingRows ==
    {i \in 0..(ax.NI - 1) : HasRun(AxRow(i), MinLen(ax.num, ax.den, ax.NJ))}

QualifyingCols ==
    {j \in 0..(ax.NJ - 1) : HasRun(AxCol(j), MinLen(ax.num, ax.den, ax.NI))}

\* the qualifying rows (columns) whose longest run is the longest of all
BestRows ==
    {i \in QualifyingRows :
        \A k \in QualifyingRows : LongestRun(AxRow(i)) >= LongestRun(AxRow(k))}

BestCols ==
    {j \in QualifyingCols :
        \A k \in QualifyingCols : LongestRun(AxCol(j)) >= LongestRun(AxCol(k))}

\* C17: when at least one row (column) has a run that reaches the minimum
\* axis length, detect_axes returns as J axis the row (as I axis the column)
\* whose longest run is the longest among the qualifying ones, and of
\* several such rows (columns) the one of smallest index.
C17_LongestQualifyingLine ==
    ax.done =>
        /\ QualifyingRows # {} => ax.res.axes[2] = SetMin(BestRows)
        /\ QualifyingCols # {} => ax.res.axes[1] = SetMin(BestCols)

\* row 0 qualifies with a shorter run, two rows below it tie for the longest
\* run, and the upper one of the two is returned
C17_Witness ==
    /\ ax.done
    /\ 0 \in QualifyingRows
    /\ 0 \notin BestRows
    /\ Cardinality(BestRows) >= 2
    /\ ax.res.axes[2] = SetMin(BestRows)
    /\ QualifyingCols # {}

(***************************************************************************)
(* C18: the first phase of group_ticks.                                    *)
(***************************************************************************)
PairDist2(p, q) == (p[1] - q[1]) * (p[1] - q[1]) + (p[2] - q[2]) * (p[2] - q[2])

\* the least squared distance over all pairs of a pixel of A and one of B
ClosestPairDist(A, B) ==
    CHOOSE m \in {PairDist2(A[a], B[b]) : a \in DOMAIN A, b \in DOMAIN B} :
        \A a \in DOMAIN A, b \in DOMAIN B : m <= PairDist2(A[a], B[b])

\* the glyphs that the ticks before the k-th took in the first phase
TakenBefore(k) == {gt.res.groups[m][2] : m \in 1..(k - 1)}

\* C18: in the first phase the ticks are served in input order; the k-th
\* group starts with the k-th tick, and its first glyph is, among the
\* glyphs that no earlier tick took, one of minimum closest-pair squared
\* distance to the tick (the minimum over all pairs of pixels).
C18_PhaseOneNearestGlyph ==
    Grouped =>
        \A k \in DOMAIN gt.ticks :
            LET pool == Range(gt.digits) \ TakenBefore(k)
                g == gt.res.groups[k][2]
            IN  /\ gt.res.groups[k][1] = gt.ticks[k]
                /\ g \in pool
                /\ \A d \in pool :
                       ClosestPairDist(gt.ticks[k], g) <= ClosestPairDist(gt.ticks[k], d)

\* the first tick is a bar whose first pixel is not its pixel closest to the
\* glyph it took, and another glyph is closer to that first pixel than the
\* glyph taken
C18_Witness ==
    /\ Grouped
    /\ Len(gt.ticks) = 2
    /\ LET tick == gt.ticks[1]
           g == gt.res.groups[1][2]
       IN  /\ Len(tick) = MaxTickLen
           /\ ClosestPairDist(tick, g) < PairDist2(tick[1], g[1])
           /\ \E d \in Range(gt.digits) :
                  /\ PairDist2(tick[1], d[1]) < PairDist2(tick[1], g[1])
                  /\ ClosestPairDist(tick, g) < ClosestPairDist(tick, d)

(***************************************************************************)
(* C19: sort_digits_in_numbers.                                            *)
(***************************************************************************)
\* C19: for every group of one or more glyphs, groups with two glyphs of
\* the same minimum row index included, sort_digits_in_numbers returns the
\* same glyphs reordered so that the minimum row index is non-decreasing
\* along the group.
C19_SortedByMinimumRow ==
    sd.done =>
        /\ sd.res.err = "none"
        /\ Len(sd.res.sorted_numbers) = Len(sd.numbers)
        /\ \A n \in DOMAIN sd.numbers :
               LET out == sd.res.sorted_numbers[n]
               IN  /\ Len(out) = Len(sd.numbers[n])
                   /\ Range(out) = Range(sd.numbers[n])
                   /\ \A k \in 1..(Len(out) - 1) :
                          least_I(out[k]) <= least_I(out[k + 1])

(***************************************************************************)
(* C20: the canvas of make_square.                                         *)
(***************************************************************************)
\* the bounding box of the digit: first row, first column, height, width
BoxTop == SetMin({sq.digit[k][1] : k \in DOMAIN sq.digit})

BoxLeft == SetMin({sq.digit[k][2] : k \in DOMAIN sq.digit})

BoxHeight == SetMax({sq.digit[k][1] : k \in DOMAIN sq.digit}) - BoxTop + 1

BoxWidth == SetMax({sq.digit[k][2] : k \in DOMAIN sq.digit}) - BoxLeft + 1

BoxLonger == IF BoxHeight >= BoxWidth THEN BoxHeight ELSE BoxWidth

\* int(max(h, w) / 8)
BoxShift == BoxLonger \div 8

\* the offsets that put the longer dimension at shift and centre the
\* shorter one: shift plus half the difference of height and width
RowOffset ==
    BoxShift + (IF BoxWidth > BoxHeight THEN (BoxWidth - BoxHeight) \div 2 ELSE 0)

ColOffset ==
    BoxShift + (IF BoxHeight > BoxWidth THEN (BoxHeight - BoxWidth) \div 2 ELSE 0)

\* C20: make_square writes a glyph of bounding box h x w onto a square
\* canvas of side max(h, w) + 2*shift, shift = int(max(h, w)/8): every
\* glyph pixel is written at a row and a column index inside [0, side),
\* the longer dimension offset by shift and the shorter one centred, for
\* glyphs wider than tall and for glyphs taller than wide.
C20_SquareCanvasCentred ==
    sq.done =>
        /\ sq.res.err = "none"
        /\ sq.res.side = BoxLonger + 2 * BoxShift
        /\ \A k \in DOMAIN sq.digit :
               /\ sq.res.written[k][1] \in 0..(sq.res.side - 1)
               /\ sq.res.written[k][2] \in 0..(sq.res.side - 1)
               /\ sq.res.written[k] =
                      <<sq.digit[k][1] - BoxTop + RowOffset,
                        sq.digit[k][2] - BoxLeft + ColOffset>>

(***************************************************************************)
(* C21, C22: the flood fills round by round (SpecFill).                    *)
(***************************************************************************)
\* C21: every flood fill (remove_tick, grow_and_remove_number) ends with
\* its frontier empty and the harvest loop of get_tickvals ends with no
\* on-pixel left in the mask: the run reaches the end of the harvest loop
\* with an empty frontier and an all-zero mask.
C21_FillsAndHarvestTerminate ==
    <>(fl.pc = "done" /\ fl.ones = {} /\ fl.pic = {})

\* an index pair that names a pixel of the mask by its own row and column
WithinMask(tid) == tid[1] \in 0..(fl.NI - 1) /\ tid[2] \in 0..(fl.NJ - 1)

\* C22: during a flood fill every mask access uses a row index in [0, NI)
\* and a column index in [0, NJ): no neighbour lookup and no frontier
\* pixel has an index -1 or NI or NJ, and the fill does not fault.
C22_LookupsWithinMask ==
    /\ fl.pc # "raised"
    /\ \A tid \in fl.lookups : WithinMask(tid)
    /\ \A one \in fl.ones : WithinMask(one)

====
